---- MODULE Spec2Model ----
(***************************************************************************)
(* A model of src/main.py: the Task entity, the TaskManager store with its *)
(* JSON backing file, and the TaskManagerUI menu loop.                     *)
(*                                                                         *)
(* Conventions.  Python's None is the integer None (-1); datetimes are     *)
(* natural numbers (microseconds of the wall clock, always >= 1); enum     *)
(* members are their member names ("TODO", "MEDIUM", ...) and their label  *)
(* values are the transliterated strings of StatusValue / PriorityValue    *)
(* (the source's labels are Chinese text).  A JSON document is modelled by *)
(* what json.load would return for it.                                     *)
(***************************************************************************)
EXTENDS Integers, Sequences, FiniteSets, TLC

VARIABLES tasks, file, now, pc, cur, last, faults, saved

vars == <<tasks, file, now, pc, cur, last, faults, saved>>

---------------------------------------------------------------------------
(* Bounds of the model. *)

MaxTime == 2
MaxTasks == 2
MaxFaults == 1

None == -1

Times == 1..MaxTime

---------------------------------------------------------------------------
(* The enumerations. *)

TaskStatus == {"TODO", "IN_PROGRESS", "DONE", "CANCELLED"}

PriorityLevel == {"LOW", "MEDIUM", "HIGH", "URGENT"}

StatusValue(s) ==
    CASE s = "TODO" -> "daiban"
      [] s = "IN_PROGRESS" -> "jinxingzhong"
      [] s = "DONE" -> "yiwancheng"
      [] s = "CANCELLED" -> "yiquxiao"

PriorityValue(p) ==
    CASE p = "LOW" -> "di"
      [] p = "MEDIUM" -> "zhong"
      [] p = "HIGH" -> "gao"
      [] p = "URGENT" -> "jinji"

StatusValues == {StatusValue(s) : s \in TaskStatus}

PriorityValues == {PriorityValue(p) : p \in PriorityLevel}

\* TaskStatus(label) and PriorityLevel(label): the member with that value;
\* the callers test membership first, a label of no member is a ValueError.
StatusOfValue(v) == CHOOSE s \in TaskStatus : StatusValue(s) = v

PriorityOfValue(v) == CHOOSE p \in PriorityLevel : PriorityValue(p) = v

DefaultCategory == "morenfenlei"

---------------------------------------------------------------------------
(* Task. *)

FieldNames == {"task_id", "title", "description", "category", "priority",
               "status", "created_at", "updated_at", "due_date", "completed_at"}

MethodNames == {"__init__", "_generate_id", "mark_as_done", "mark_as_in_progress",
                "mark_as_cancelled", "update", "is_overdue", "to_dict",
                "from_dict", "__str__"}

\* int(datetime.now().timestamp() * 1000000): the clock reading itself, the
\* clock of the model counting microseconds.
GenerateId(clk) == clk

\* Task.__init__ at clock reading clk.  "shadowed" is the set of method names
\* that an instance attribute of the same name hides (none at construction).
NewTask(title, description, category, priority, due_date, task_id, clk) ==
    [task_id |-> IF task_id # None /\ task_id # 0 THEN task_id ELSE GenerateId(clk),
     title |-> title,
     description |-> description,
     category |-> category,
     priority |-> priority,
     status |-> "TODO",
     created_at |-> clk,
     updated_at |-> clk,
     due_date |-> due_date,
     completed_at |-> None,
     shadowed |-> {}]

MarkAsDone(t, clk) ==
    [t EXCEPT !.status = "DONE", !.completed_at = clk, !.updated_at = clk]

MarkAsInProgress(t, clk) ==
    [t EXCEPT !.status = "IN_PROGRESS", !.updated_at = clk]

MarkAsCancelled(t, clk) ==
    [t EXCEPT !.status = "CANCELLED", !.updated_at = clk]

\* hasattr(self, key): the instance's data attributes and the class's methods.
HasAttr(t, key) == key \in FieldNames \/ key \in MethodNames

\* Task.update(**kwargs): setattr for every key the object has, then the
\* refresh of updated_at.  kwargs is a record.
Update(t, kwargs, clk) ==
    LET keys == {k \in DOMAIN kwargs : HasAttr(t, k)}
        set(f) == IF f \in keys THEN kwargs[f] ELSE t[f]
    IN [task_id |-> set("task_id"),
        title |-> set("title"),
        description |-> set("description"),
        category |-> set("category"),
        priority |-> set("priority"),
        status |-> set("status"),
        created_at |-> set("created_at"),
        updated_at |-> clk,
        due_date |-> set("due_date"),
        completed_at |-> set("completed_at"),
        shadowed |-> t.shadowed \cup (keys \cap MethodNames)]

\* Python truthiness of an Optional[datetime]: None is false, a datetime true.
TruthyTime(d) == d # None

\* An is_overdue that forgets the status.
IsOverdue_IgnoresStatus(t, clk) ==
    IF TruthyTime(t.due_date) THEN clk > t.due_date ELSE FALSE

IsOverdue(t, clk) ==
    IF TruthyTime(t.due_date) /\ t.status # "DONE" THEN clk > t.due_date ELSE FALSE

---------------------------------------------------------------------------
(* Serialization. *)

JsonNull == "null"

\* datetime.isoformat(): microsecond d of the model's clock as ISO-8601 text.
IsoFormat(d) == "1970-01-01T00:00:00.00000" \o ToString(d)

\* The timestamps a stored string can denote.
IsoTimes == 0..MaxTime

IsIsoString(s) == \E d \in IsoTimes : IsoFormat(d) = s

\* datetime.fromisoformat(s) for a string it parses.
FromIsoFormat(s) == CHOOSE d \in IsoTimes : IsoFormat(d) = s

ToDict(t) ==
    [task_id |-> t.task_id,
     title |-> t.title,
     description |-> t.description,
     category |-> t.category,
     priority |-> PriorityValue(t.priority),
     status |-> StatusValue(t.status),
     created_at |-> IsoFormat(t.created_at),
     updated_at |-> IsoFormat(t.updated_at),
     due_date |-> IF TruthyTime(t.due_date) THEN IsoFormat(t.due_date) ELSE JsonNull,
     completed_at |-> IF TruthyTime(t.completed_at) THEN IsoFormat(t.completed_at) ELSE JsonNull]

\* dict.get(key, default)
Get(data, key, default) == IF key \in DOMAIN data THEN data[key] ELSE default

\* Python truthiness of a JSON value read for a timestamp key: null and the
\* empty string are false.
TruthyJson(v) == v # JsonNull /\ v # ""

\* The first exception Task.from_dict(data) raises, in the order the code
\* evaluates, or "none".
FromDictError(data) ==
    IF "title" \notin DOMAIN data THEN "KeyError"
    ELSE IF Get(data, "priority", "zhong") \notin PriorityValues THEN "ValueError"
    ELSE IF "task_id" \notin DOMAIN data THEN "KeyError"
    ELSE IF Get(data, "status", "daiban") \notin StatusValues THEN "ValueError"
    ELSE IF "created_at" \notin DOMAIN data THEN "KeyError"
    ELSE IF ~IsIsoString(data.created_at) THEN "ValueError"
    ELSE IF "updated_at" \notin DOMAIN data THEN "KeyError"
    ELSE IF ~IsIsoString(data.updated_at) THEN "ValueError"
    ELSE IF TruthyJson(Get(data, "due_date", JsonNull)) /\ ~IsIsoString(data.due_date)
    THEN "ValueError"
    ELSE IF TruthyJson(Get(data, "completed_at", JsonNull))
            /\ ~IsIsoString(data.completed_at)
    THEN "ValueError"
    ELSE "none"

\* A from_dict that reads the category with "or": an empty one becomes the
\* default.
FromDict_DefaultsEmptyCategory(data, clk) ==
    LET category == Get(data, "category", DefaultCategory)
        task == NewTask(data.title,
                        Get(data, "description", ""),
                        IF category = "" THEN DefaultCategory ELSE category,
                        PriorityOfValue(Get(data, "priority", "zhong")),
                        None,
                        data.task_id,
                        clk)
        due == Get(data, "due_date", JsonNull)
        completed == Get(data, "completed_at", JsonNull)
    IN [task EXCEPT
          !.status = StatusOfValue(Get(data, "status", "daiban")),
          !.created_at = FromIsoFormat(data.created_at),
          !.updated_at = FromIsoFormat(data.updated_at),
          !.due_date = IF TruthyJson(due) THEN FromIsoFormat(due) ELSE None,
          !.completed_at = IF TruthyJson(completed) THEN FromIsoFormat(completed) ELSE None]

\* Task.from_dict(data) when it raises nothing, constructed at clock clk.
FromDict(data, clk) ==
    LET task == NewTask(data.title,
                        Get(data, "description", ""),
                        Get(data, "category", DefaultCategory),
                        PriorityOfValue(Get(data, "priority", "zhong")),
                        None,
                        data.task_id,
                        clk)
        due == Get(data, "due_date", JsonNull)
        completed == Get(data, "completed_at", JsonNull)
    IN [task EXCEPT
          !.status = StatusOfValue(Get(data, "status", "daiban")),
          !.created_at = FromIsoFormat(data.created_at),
          !.updated_at = FromIsoFormat(data.updated_at),
          !.due_date = IF TruthyJson(due) THEN FromIsoFormat(due) ELSE None,
          !.completed_at = IF TruthyJson(completed) THEN FromIsoFormat(completed) ELSE None]

---------------------------------------------------------------------------
(* The backing file.  kind is what the path holds:                         *)
(*   "absent"      no file (os.path.exists is false)                       *)
(*   "list"        a JSON array of objects, data                           *)
(*   "notjson"     text json.load cannot parse                             *)
(*   "partial"     what a write that failed part-way left: open(..., "w")  *)
(*                 emptied the file and a proper prefix of the new text    *)
(*                 followed; json.load cannot parse it                     *)
(*   "scalar"      a JSON number                                           *)
(*   "object"      a JSON object instead of an array                       *)
(*   "unreadable"  a file open() refuses to read (IOError)                 *)

NoFile == [kind |-> "absent", data |-> <<>>]

RECURSIVE FirstError(_)
\* The exception of the first record of the array from_dict rejects.
FirstError(records) ==
    IF records = <<>> THEN "none"
    ELSE IF FromDictError(Head(records)) # "none" THEN FromDictError(Head(records))
    ELSE FirstError(Tail(records))

\* TaskManager.load_tasks on file f: the collection, the exception that
\* escapes ("none" when none does) and whether a failure was printed.
LoadTasks(f, clk) ==
    CASE f.kind = "absent" ->
           [tasks |-> <<>>, raised |-> "none", reported |-> FALSE]
      [] f.kind \in {"notjson", "partial", "unreadable"} ->
           [tasks |-> <<>>, raised |-> "none", reported |-> TRUE]
      [] f.kind \in {"scalar", "object"} ->
           [tasks |-> <<>>, raised |-> "TypeError", reported |-> FALSE]
      [] f.kind = "list" ->
           IF FirstError(f.data) # "none"
           THEN [tasks |-> <<>>, raised |-> FirstError(f.data), reported |-> FALSE]
           ELSE [tasks |-> [i \in DOMAIN f.data |-> FromDict(f.data[i], clk)],
                 raised |-> "none", reported |-> FALSE]

\* json.dump([task.to_dict() for task in tasks]) as the file's content.
Serialize(ts) == [kind |-> "list", data |-> [i \in DOMAIN ts |-> ToDict(ts[i])]]

\* What a failed write leaves: never the whole text, so never parseable.
PartialFile == [kind |-> "partial", data |-> <<>>]

\* TaskManager.save_tasks with the collection ts, under I/O outcome io:
\*   "ok"          open and write succeed
\*   "open_fail"   open(..., "w") raises IOError: the file is untouched
\*   "write_fail"  open emptied the file, then a write raises IOError
\* The result: the file, the exception that escapes, whether a failure was
\* printed.  A task whose to_dict is hidden by an instance attribute makes
\* the list comprehension raise TypeError after the file was emptied.
SaveTasks(ts, f, io) ==
    IF io = "open_fail"
    THEN [file |-> f, raised |-> "none", reported |-> TRUE]
    ELSE IF \E i \in DOMAIN ts : "to_dict" \in ts[i].shadowed
    THEN [file |-> PartialFile, raised |-> "TypeError", reported |-> FALSE]
    ELSE IF io = "write_fail"
    THEN [file |-> PartialFile, raised |-> "none", reported |-> TRUE]
    ELSE [file |-> Serialize(ts), raised |-> "none", reported |-> FALSE]

\* The I/O outcomes the environment can produce with n failures left to inject.
IoOutcomes(n) == IF n > 0 THEN {"ok", "open_fail", "write_fail"} ELSE {"ok"}

---------------------------------------------------------------------------
(* TaskManager's queries. *)

Range(seq) == {seq[i] : i \in DOMAIN seq}

\* get_task_by_id: the index of the first task with that id, 0 for None.
GetTaskById(ts, task_id) ==
    IF \E i \in DOMAIN ts : ts[i].task_id = task_id
    THEN CHOOSE i \in DOMAIN ts :
           /\ ts[i].task_id = task_id
           /\ \A j \in DOMAIN ts : ts[j].task_id = task_id => i <= j
    ELSE 0

\* A removal that drops every task with the id of the one at index i.
RemoveAt_AllWithId(ts, i) ==
    LET keep == {j \in DOMAIN ts : ts[j].task_id # ts[i].task_id}
        nth(n) == CHOOSE j \in keep : Cardinality({h \in keep : h < j}) = n - 1
    IN [n \in 1..Cardinality(keep) |-> ts[nth(n)]]

\* list.remove of the object at index i.
RemoveAt(ts, i) == SubSeq(ts, 1, i - 1) \o SubSeq(ts, i + 1, Len(ts))

\* The filter arguments' None.
NoStatus == "None"

NoCategory == "<None>"

\* Python truthiness of the filter arguments: an enum member is true, None
\* false; a string is true unless empty, None false.
TruthyStatus(fs) == fs # NoStatus

TruthyCategory(fc) == fc # NoCategory /\ fc # ""

RECURSIVE Filter(_, _, _)
Filter(ts, key, value) ==
    IF ts = <<>> THEN <<>>
    ELSE IF Head(ts)[key] = value THEN <<Head(ts)>> \o Filter(Tail(ts), key, value)
    ELSE Filter(Tail(ts), key, value)

\* x goes after every task created no earlier than it: equal keys keep
\* their order, as sorted(..., reverse=True) does.
RECURSIVE InsertDesc(_, _)
InsertDesc(sorted, x) ==
    IF sorted = <<>> THEN <<x>>
    ELSE IF Head(sorted).created_at >= x.created_at
         THEN <<Head(sorted)>> \o InsertDesc(Tail(sorted), x)
         ELSE <<x>> \o sorted

RECURSIVE SortedByCreatedDesc(_)
SortedByCreatedDesc(ts) ==
    IF ts = <<>> THEN <<>>
    ELSE InsertDesc(SortedByCreatedDesc(SubSeq(ts, 1, Len(ts) - 1)), ts[Len(ts)])

ListTasks(ts, filter_status, filter_category) ==
    LET byStatus == IF TruthyStatus(filter_status)
                    THEN Filter(ts, "status", filter_status) ELSE ts
        byCategory == IF TruthyCategory(filter_category)
                      THEN Filter(byStatus, "category", filter_category) ELSE byStatus
    IN SortedByCreatedDesc(byCategory)

\* sum(1 for task in self.tasks if task.status == status)
CountStatus(ts, status) == Cardinality({i \in DOMAIN ts : ts[i].status = status})

\* The quotient done / total * 100 as the fraction num / den it denotes; the
\* rounding of the floating-point division is not modelled.
Percent(done, total) == [num |-> done * 100, den |-> total]

\* The integer 0 returned when there is no task.
ZeroRate == [num |-> 0, den |-> 1]

\* A get_statistics that counts the cancelled tasks as done too.
GetStatistics_DoneCountsClosed(ts, clk) ==
    LET total == Len(ts)
        done == CountStatus(ts, "DONE") + CountStatus(ts, "CANCELLED")
    IN [total |-> total,
        done |-> done,
        in_progress |-> CountStatus(ts, "IN_PROGRESS"),
        todo |-> CountStatus(ts, "TODO"),
        cancelled |-> CountStatus(ts, "CANCELLED"),
        overdue |-> Cardinality({i \in DOMAIN ts : IsOverdue(ts[i], clk)}),
        completion_rate |-> IF total > 0 THEN Percent(done, total) ELSE ZeroRate]

\* A get_statistics whose rate is the share of the tasks that left TODO.
GetStatistics_RateOfStarted(ts, clk) ==
    LET total == Len(ts)
        done == CountStatus(ts, "DONE")
    IN [total |-> total,
        done |-> done,
        in_progress |-> CountStatus(ts, "IN_PROGRESS"),
        todo |-> CountStatus(ts, "TODO"),
        cancelled |-> CountStatus(ts, "CANCELLED"),
        overdue |-> Cardinality({i \in DOMAIN ts : IsOverdue(ts[i], clk)}),
        completion_rate |-> IF total > 0
                            THEN Percent(total - CountStatus(ts, "TODO"), total)
                            ELSE ZeroRate]

\* get_statistics() at clock reading clk.
GetStatistics(ts, clk) ==
    LET total == Len(ts)
        done == CountStatus(ts, "DONE")
    IN [total |-> total,
        done |-> done,
        in_progress |-> CountStatus(ts, "IN_PROGRESS"),
        todo |-> CountStatus(ts, "TODO"),
        cancelled |-> CountStatus(ts, "CANCELLED"),
        overdue |-> Cardinality({i \in DOMAIN ts : IsOverdue(ts[i], clk)}),
        completion_rate |-> IF total > 0 THEN Percent(done, total) ELSE ZeroRate]

---------------------------------------------------------------------------
(* Bookkeeping of the run, no state of the program: faults is how many    *)
(* more I/O failures the environment may produce, saved the I/O outcome of *)
(* the most recent save_tasks() ("none" before the first), and last what   *)
(* the last operation did: its name, the exception that escaped it, the   *)
(* boolean it returned, the I/O outcome of the save it ran ("none" when it *)
(* ran none), whether a failure was printed, the sequence or dictionary it *)
(* returned, and its arguments.                                            *)

NoLast ==
    [op |-> "init", raised |-> "none", ret |-> FALSE, io |-> "none",
     reported |-> FALSE, out |-> <<>>, id |-> None,
     fs |-> NoStatus, fc |-> NoCategory, arg |-> <<>>]

---------------------------------------------------------------------------
(* TaskManager's mutating operations, as steps of the state. *)

\* A save that undoes the operation's change when the write fails.
SaveStep_RollsBack(op, ts, io, rec) ==
    LET s == SaveTasks(ts, file, io)
    IN /\ tasks' = IF io = "ok" THEN ts ELSE tasks
       /\ file' = s.file
       /\ faults' = IF io = "ok" THEN faults ELSE faults - 1
       /\ saved' = io
       /\ last' = [rec EXCEPT !.op = op, !.raised = s.raised, !.io = io,
                              !.reported = s.reported]

\* save_tasks() on the collection ts the operation has just built.
SaveStep(op, ts, io, rec) ==
    LET s == SaveTasks(ts, file, io)
    IN /\ tasks' = ts
       /\ file' = s.file
       /\ faults' = IF io = "ok" THEN faults ELSE faults - 1
       /\ saved' = io
       /\ last' = [rec EXCEPT !.op = op, !.raised = s.raised, !.io = io,
                              !.reported = s.reported]

\* An add_task that appends and never saves.
AddTask_SkipsSave(task, io) ==
    /\ tasks' = Append(tasks, task)
    /\ last' = [NoLast EXCEPT !.op = "add", !.arg = <<task>>, !.id = task.task_id]
    /\ UNCHANGED <<file, faults, saved>>

\* add_task(task)
AddTask(task, io) ==
    SaveStep("add", Append(tasks, task), io,
             [NoLast EXCEPT !.arg = <<task>>, !.id = task.task_id])

\* A delete_task that saves whether or not it found the task.
DeleteTask_AlwaysSaves(task_id, io) ==
    LET i == GetTaskById(tasks, task_id)
    IN IF i # 0
       THEN SaveStep("delete", RemoveAt(tasks, i), io,
                     [NoLast EXCEPT !.id = task_id, !.ret = TRUE])
       ELSE SaveStep("delete", tasks, io,
                     [NoLast EXCEPT !.id = task_id, !.ret = FALSE])

\* delete_task(task_id)
DeleteTask(task_id, io) ==
    LET i == GetTaskById(tasks, task_id)
    IN IF i # 0
       THEN SaveStep("delete", RemoveAt(tasks, i), io,
                     [NoLast EXCEPT !.id = task_id, !.ret = TRUE])
       ELSE /\ last' = [NoLast EXCEPT !.op = "delete", !.id = task_id,
                                      !.ret = FALSE, !.reported = TRUE]
            /\ UNCHANGED <<tasks, file, faults, saved>>

---------------------------------------------------------------------------
(* The store used as a library: a caller constructs tasks, adds, deletes,  *)
(* lists, marks the tasks get_task_by_id hands out and saves, and opens a  *)
(* fresh TaskManager on the same file.                                     *)

\* Constructor arguments the caller passes.
TaskArgs ==
    { [title |-> "a", description |-> "", category |-> DefaultCategory,
       priority |-> "MEDIUM", due_date |-> None, task_id |-> None],
      [title |-> "", description |-> "d", category |-> "",
       priority |-> "URGENT", due_date |-> 1, task_id |-> 7],
      [title |-> "b", description |-> "", category |-> "work",
       priority |-> "LOW", due_date |-> None, task_id |-> 0] }

\* Ids the caller asks for.
CallerIds == Times \cup {7}

LibAdd ==
    /\ pc = "lib"
    /\ Len(tasks) < MaxTasks
    /\ \E a \in TaskArgs, io \in IoOutcomes(faults) :
         LET task == NewTask(a.title, a.description, a.category, a.priority,
                             a.due_date, a.task_id, now)
         IN AddTask(task, io)
    /\ UNCHANGED <<now, pc, cur>>

LibDelete ==
    /\ pc = "lib"
    /\ \E id \in CallerIds, io \in IoOutcomes(faults) : DeleteTask(id, io)
    /\ UNCHANGED <<now, pc, cur>>

\* task = get_task_by_id(id); task.mark_as_done() (or in_progress,
\* cancelled); save_tasks()
LibMark ==
    /\ pc = "lib"
    /\ \E id \in CallerIds, m \in {"DONE", "IN_PROGRESS", "CANCELLED"},
          io \in IoOutcomes(faults) :
         LET i == GetTaskById(tasks, id)
         IN /\ i # 0
            /\ SaveStep("mark",
                        [tasks EXCEPT ![i] =
                           CASE m = "DONE" -> MarkAsDone(tasks[i], now)
                             [] m = "IN_PROGRESS" -> MarkAsInProgress(tasks[i], now)
                             [] m = "CANCELLED" -> MarkAsCancelled(tasks[i], now)],
                        io, [NoLast EXCEPT !.id = id])
    /\ UNCHANGED <<now, pc, cur>>

\* list_tasks(filter_status, filter_category)
LibList ==
    /\ pc = "lib"
    /\ \E fs \in {NoStatus, "TODO", "DONE"}, fc \in {NoCategory, "", "work"} :
         last' = [NoLast EXCEPT !.op = "list", !.fs = fs, !.fc = fc,
                                !.out = ListTasks(tasks, fs, fc)]
    /\ UNCHANGED <<tasks, file, now, pc, cur, faults, saved>>

\* Keyword arguments of a caller that edits a stored task's fields.
StoreUpdateKwargs ==
    {[status |-> st] : st \in TaskStatus}
      \cup {[due_date |-> MaxTime]}

\* task = get_task_by_id(id); task.update(**kwargs); save_tasks()
LibUpdate ==
    /\ pc = "lib"
    /\ \E id \in CallerIds, kwargs \in StoreUpdateKwargs, io \in IoOutcomes(faults) :
         LET i == GetTaskById(tasks, id)
         IN /\ i # 0
            /\ SaveStep("update", [tasks EXCEPT ![i] = Update(tasks[i], kwargs, now)],
                        io, [NoLast EXCEPT !.id = id])
    /\ UNCHANGED <<now, pc, cur>>

\* get_statistics(): last.out holds the dictionary returned.
LibStatistics ==
    /\ pc = "lib"
    /\ last' = [NoLast EXCEPT !.op = "statistics",
                              !.out = <<GetStatistics(tasks, now)>>]
    /\ UNCHANGED <<tasks, file, now, pc, cur, faults, saved>>

\* get_task_by_id(id).is_overdue(): last.arg holds the task, last.ret the
\* value returned.
LibIsOverdue ==
    /\ pc = "lib"
    /\ \E id \in CallerIds :
         LET i == GetTaskById(tasks, id)
         IN /\ i # 0
            /\ last' = [NoLast EXCEPT !.op = "is_overdue", !.id = id,
                                      !.arg = <<tasks[i]>>,
                                      !.ret = IsOverdue(tasks[i], now)]
    /\ UNCHANGED <<tasks, file, now, pc, cur, faults, saved>>

\* TaskManager(data_file) again: a fresh store loading the same file.
LibReload ==
    /\ pc = "lib"
    /\ LET l == LoadTasks(file, now)
       IN /\ tasks' = l.tasks
          /\ last' = [NoLast EXCEPT !.op = "load", !.raised = l.raised,
                                    !.reported = l.reported]
    /\ UNCHANGED <<file, now, pc, cur, faults, saved>>

\* The wall clock advances between operations.
Tick ==
    /\ now < MaxTime
    /\ now' = now + 1
    /\ UNCHANGED <<tasks, file, pc, cur, last, faults, saved>>

\* A store on no backing file yet, in an environment where no I/O fails.
Init ==
    /\ tasks = <<>>
    /\ file = NoFile
    /\ now = 1
    /\ pc = "lib"
    /\ cur = <<>>
    /\ last = NoLast
    /\ faults = 0
    /\ saved = "none"

Next ==
    \/ LibAdd
    \/ LibDelete
    \/ LibMark
    \/ LibList
    \/ Tick

Spec == Init /\ [][Next]_vars

\* The store whose caller also edits the tasks it looks up, asks whether
\* they are overdue and reads the statistics.
NextStore ==
    \/ LibAdd
    \/ LibDelete
    \/ LibMark
    \/ LibUpdate
    \/ LibStatistics
    \/ LibIsOverdue
    \/ Tick

SpecStore == Init /\ [][NextStore]_vars

\* The same store where up to MaxFaults saves hit an I/O failure, and the
\* caller reopens the file.
InitIO ==
    /\ tasks = <<>>
    /\ file = NoFile
    /\ now = 1
    /\ pc = "lib"
    /\ cur = <<>>
    /\ last = NoLast
    /\ faults = MaxFaults
    /\ saved = "none"

NextIO ==
    \/ LibAdd
    \/ LibDelete
    \/ LibReload
    \/ Tick

SpecIO == InitIO /\ [][NextIO]_vars

---------------------------------------------------------------------------
(* The program: ui = TaskManagerUI(); ui.run().  pc is "start" before the  *)
(* constructor, "menu" at the prompt of the control loop, "prompt" inside  *)
(* a get_valid_input loop no input can leave, "exited" after choice 9 and  *)
(* "crashed" when an exception escaped run().                              *)

\* What the path can hold when the program starts.
GoodRecord ==
    [task_id |-> 7, title |-> "old", category |-> "",
     created_at |-> IsoFormat(1), updated_at |-> IsoFormat(1)]

InitFiles ==
    { NoFile,
      [kind |-> "notjson", data |-> <<>>],
      [kind |-> "unreadable", data |-> <<>>],
      [kind |-> "scalar", data |-> <<>>],
      [kind |-> "object", data |-> <<>>],
      [kind |-> "list", data |-> <<GoodRecord>>],
      [kind |-> "list", data |-> <<[title |-> "old"]>>],
      [kind |-> "list", data |-> <<[GoodRecord EXCEPT !.created_at = "yesterday"]>>],
      [kind |-> "list",
       data |-> <<[task_id |-> 7, title |-> "old", priority |-> "high",
                   created_at |-> IsoFormat(1), updated_at |-> IsoFormat(1)]>>],
      [kind |-> "list",
       data |-> <<[task_id |-> 7, title |-> "old", status |-> "done",
                   created_at |-> IsoFormat(1), updated_at |-> IsoFormat(1)]>>] }

\* The ids the user types.
UiIds == Times \cup {7}

\* A date in the format "%Y-%m-%d %H:%M".
DateString(d) == "1970-01-01 00:0" \o ToString(d)

IsDateString(s) == \E d \in IsoTimes : DateString(d) = s

\* datetime.strptime(s, "%Y-%m-%d %H:%M") for a string it parses.
StrpTime(s) == CHOOSE d \in IsoTimes : DateString(d) = s

\* What the user types in the add dialog: a title (get_valid_input takes no
\* empty one), description, category, one of the priority labels, and a date
\* that is empty, unparseable or well-formed.
UiAddAnswers ==
    { [title |-> "a", description |-> "", category |-> "", priority |-> "zhong",
       due_date |-> ""],
      [title |-> "a", description |-> "", category |-> "", priority |-> "zhong",
       due_date |-> "soon"],
      [title |-> "b", description |-> "", category |-> "", priority |-> "zhong",
       due_date |-> DateString(1)] }

\* What the user types in the update dialog: empty keeps the value, and
\* nothing checks the labels typed for priority and status.
UiUpdateAnswers ==
    { [title |-> "", description |-> "", category |-> "", priority |-> "",
       status |-> "", due_date |-> ""],
      [title |-> "b", description |-> "", category |-> "", priority |-> "",
       status |-> "yiwancheng", due_date |-> DateString(1)],
      [title |-> "", description |-> "", category |-> "", priority |-> "",
       status |-> "daiban", due_date |-> "soon"],
      [title |-> "", description |-> "", category |-> "", priority |-> "high",
       status |-> "", due_date |-> ""],
      [title |-> "", description |-> "", category |-> "", priority |-> "",
       status |-> "done", due_date |-> ""] }

\* get_categories(): the distinct categories.
GetCategories(ts) == {ts[i].category : i \in DOMAIN ts}

\* After a handler: back at the menu, unless an exception escaped.
Resume == pc' = IF last'.raised = "none" THEN "menu" ELSE "crashed"

\* TaskManagerUI(): TaskManager() and its load_tasks().
Start ==
    /\ pc = "start"
    /\ LET l == LoadTasks(file, now)
       IN /\ tasks' = l.tasks
          /\ last' = [NoLast EXCEPT !.op = "load", !.raised = l.raised,
                                    !.reported = l.reported]
    /\ Resume
    /\ UNCHANGED <<file, now, cur, faults, saved>>

\* choice 1: add_task_ui
AddTaskUI ==
    /\ pc = "menu"
    /\ Len(tasks) < MaxTasks
    /\ \E answers \in UiAddAnswers, io \in IoOutcomes(faults) :
         LET category == IF answers.category # "" THEN answers.category
                         ELSE DefaultCategory
             due_date_input == answers.due_date
             due_date == IF due_date_input # "" /\ IsDateString(due_date_input)
                         THEN StrpTime(due_date_input) ELSE None
         IN AddTask(NewTask(answers.title, answers.description, category,
                            PriorityOfValue(answers.priority), due_date, None, now), io)
    /\ Resume
    /\ UNCHANGED <<now, cur>>

\* choice 2: list_tasks() and its display; what is printed is no state
ListAllUI ==
    /\ pc = "menu"
    /\ ListTasks(tasks, NoStatus, NoCategory) \in Seq(Range(tasks))
    /\ last' = [NoLast EXCEPT !.op = "ui_list"]
    /\ Resume
    /\ UNCHANGED <<tasks, file, now, cur, faults, saved>>

\* choice 3: list_tasks(filter_status=status), the status one of the labels
FilterStatusUI ==
    /\ pc = "menu"
    /\ \E status_input \in StatusValues :
         /\ ListTasks(tasks, StatusOfValue(status_input), NoCategory) \in Seq(Range(tasks))
         /\ last' = [NoLast EXCEPT !.op = "ui_list"]
    /\ Resume
    /\ UNCHANGED <<tasks, file, now, cur, faults, saved>>

\* choice 4: list_tasks(filter_category=category), the category one of
\* get_categories(); get_valid_input never accepts the empty answer, so with
\* the empty category alone the prompt repeats for ever.
FilterCategoryUI ==
    /\ pc = "menu"
    /\ IF GetCategories(tasks) = {}
       THEN last' = [NoLast EXCEPT !.op = "ui_categories"] /\ Resume
       ELSE IF GetCategories(tasks) = {""}
       THEN last' = [NoLast EXCEPT !.op = "ui_categories"] /\ pc' = "prompt"
       ELSE /\ \E category \in GetCategories(tasks) \ {""} :
                 /\ ListTasks(tasks, NoStatus, category) \in Seq(Range(tasks))
                 /\ last' = [NoLast EXCEPT !.op = "ui_list"]
            /\ Resume
    /\ UNCHANGED <<tasks, file, now, cur, faults, saved>>

\* choice 5: update_task_ui
UpdateTaskUI ==
    /\ pc = "menu"
    /\ \E task_id \in UiIds :
         LET i == GetTaskById(tasks, task_id)
         IN IF i = 0
            THEN /\ last' = [NoLast EXCEPT !.op = "ui_update", !.reported = TRUE]
                 /\ UNCHANGED <<tasks, file, faults, saved>>
            ELSE \E answers \in UiUpdateAnswers, io \in IoOutcomes(faults) :
                   LET task == tasks[i]
                       title == IF answers.title # "" THEN answers.title ELSE task.title
                       description == IF answers.description # ""
                                      THEN answers.description ELSE task.description
                       category == IF answers.category # ""
                                   THEN answers.category ELSE task.category
                       priority_input == IF answers.priority # "" THEN answers.priority
                                         ELSE PriorityValue(task.priority)
                       status_input == IF answers.status # "" THEN answers.status
                                       ELSE StatusValue(task.status)
                       due_date_input == answers.due_date
                       due_date == IF due_date_input # "" /\ IsDateString(due_date_input)
                                   THEN StrpTime(due_date_input) ELSE task.due_date
                   IN IF priority_input \notin PriorityValues
                         \/ status_input \notin StatusValues
                      THEN \* PriorityLevel(...) or TaskStatus(...) raises ValueError
                           /\ last' = [NoLast EXCEPT !.op = "ui_update",
                                                     !.raised = "ValueError"]
                           /\ UNCHANGED <<tasks, file, faults, saved>>
                      ELSE LET status == StatusOfValue(status_input)
                               updated ==
                                 Update(task,
                                        [title |-> title,
                                         description |-> description,
                                         category |-> category,
                                         priority |-> PriorityOfValue(priority_input),
                                         status |-> status,
                                         due_date |-> due_date],
                                        now)
                               marked ==
                                 IF status = "DONE" /\ ~TruthyTime(updated.completed_at)
                                 THEN MarkAsDone(updated, now) ELSE updated
                           IN SaveStep("ui_update", [tasks EXCEPT ![i] = marked], io,
                                       [NoLast EXCEPT !.id = task_id])
    /\ Resume
    /\ UNCHANGED <<now, cur>>

\* A mark_task_done_ui that marks and saves a task already done.
MarkTaskDoneUI_MarksAgain ==
    /\ pc = "menu"
    /\ \E task_id \in UiIds, io \in IoOutcomes(faults) :
         LET i == GetTaskById(tasks, task_id)
         IN IF i = 0
            THEN /\ last' = [NoLast EXCEPT !.op = "ui_done", !.id = task_id,
                                           !.reported = TRUE]
                 /\ UNCHANGED <<tasks, file, faults, saved>>
            ELSE SaveStep("ui_done", [tasks EXCEPT ![i] = MarkAsDone(tasks[i], now)],
                          io, [NoLast EXCEPT !.id = task_id])
    /\ Resume
    /\ UNCHANGED <<now, cur>>

\* choice 6: mark_task_done_ui
MarkTaskDoneUI ==
    /\ pc = "menu"
    /\ \E task_id \in UiIds, io \in IoOutcomes(faults) :
         LET i == GetTaskById(tasks, task_id)
         IN IF i = 0
            THEN /\ last' = [NoLast EXCEPT !.op = "ui_done", !.id = task_id,
                                           !.reported = TRUE]
                 /\ UNCHANGED <<tasks, file, faults, saved>>
            ELSE IF tasks[i].status = "DONE"
            THEN /\ last' = [NoLast EXCEPT !.op = "ui_done", !.id = task_id]
                 /\ UNCHANGED <<tasks, file, faults, saved>>
            ELSE SaveStep("ui_done", [tasks EXCEPT ![i] = MarkAsDone(tasks[i], now)],
                          io, [NoLast EXCEPT !.id = task_id])
    /\ Resume
    /\ UNCHANGED <<now, cur>>

\* choice 7: delete_task_ui
DeleteTaskUI ==
    /\ pc = "menu"
    /\ \E task_id \in UiIds, io \in IoOutcomes(faults) : DeleteTask(task_id, io)
    /\ Resume
    /\ UNCHANGED <<now, cur>>

\* choice 8: show_statistics_ui
ShowStatisticsUI ==
    /\ pc = "menu"
    /\ last' = [NoLast EXCEPT !.op = "ui_stats"]
    /\ Resume
    /\ UNCHANGED <<tasks, file, now, cur, faults, saved>>

\* choice 9: break; the process ends and its memory with it
Exit ==
    /\ pc = "menu"
    /\ pc' = "exited"
    /\ tasks' = <<>>
    /\ last' = [NoLast EXCEPT !.op = "ui_exit"]
    /\ UNCHANGED <<file, now, cur, faults, saved>>

InitShell ==
    /\ tasks = <<>>
    /\ file \in InitFiles
    /\ now = 1
    /\ pc = "start"
    /\ cur = <<>>
    /\ last = NoLast
    /\ faults = MaxFaults
    /\ saved = "none"

NextShell ==
    \/ Start
    \/ AddTaskUI
    \/ ListAllUI
    \/ FilterStatusUI
    \/ FilterCategoryUI
    \/ UpdateTaskUI
    \/ MarkTaskDoneUI
    \/ DeleteTaskUI
    \/ ShowStatisticsUI
    \/ Exit
    \/ Tick

SpecShell == InitShell /\ [][NextShell]_vars

\* The program started where no backing file exists yet.
InitFirstRun ==
    /\ tasks = <<>>
    /\ file = NoFile
    /\ now = 1
    /\ pc = "start"
    /\ cur = <<>>
    /\ last = NoLast
    /\ faults = MaxFaults
    /\ saved = "none"

SpecFirstRun == InitFirstRun /\ [][NextShell]_vars

---------------------------------------------------------------------------
(* One Task in a caller's hands: constructed, transitioned, updated with   *)
(* any keyword arguments, and passed through to_dict and from_dict.  cur   *)
(* holds the task (empty before the first construction).  Calling a method *)
(* that an instance attribute hides raises TypeError.                      *)

\* Keyword arguments the caller passes to update: fields, a key the task
\* does not have, and names of its methods.
UpdateKwargs ==
    { [status |-> "TODO"],
      [title |-> "c", priority |-> "HIGH", status |-> "DONE", due_date |-> 1],
      [description |-> "e", category |-> "", due_date |-> None],
      [completed_at |-> None],
      [created_at |-> MaxTime],
      [color |-> "red"],
      [mark_as_done |-> 0],
      [to_dict |-> 0] }

TaskConstruct ==
    /\ pc = "task"
    /\ \E a \in TaskArgs :
         /\ cur' = <<NewTask(a.title, a.description, a.category, a.priority,
                             a.due_date, a.task_id, now)>>
         /\ last' = [NoLast EXCEPT !.op = "construct"]
    /\ UNCHANGED <<tasks, file, now, pc, faults, saved>>

\* A call of method name on the task, after being what the method makes of
\* the task.
TaskCall(name, after) ==
    /\ pc = "task"
    /\ cur # <<>>
    /\ IF name \in cur[1].shadowed
       THEN /\ last' = [NoLast EXCEPT !.op = name, !.raised = "TypeError"]
            /\ cur' = cur
       ELSE /\ last' = [NoLast EXCEPT !.op = name, !.arg = cur]
            /\ cur' = <<after>>
    /\ UNCHANGED <<tasks, file, now, pc, faults, saved>>

TaskMarkAsDone == TaskCall("mark_as_done", MarkAsDone(cur[1], now))

TaskMarkAsInProgress ==
    TaskCall("mark_as_in_progress", MarkAsInProgress(cur[1], now))

TaskMarkAsCancelled ==
    TaskCall("mark_as_cancelled", MarkAsCancelled(cur[1], now))

TaskUpdate ==
    \E kwargs \in UpdateKwargs : TaskCall("update", Update(cur[1], kwargs, now))

\* Task.from_dict(task.to_dict()): last.arg is the task, last.out the copy.
TaskRoundTrip ==
    /\ pc = "task"
    /\ cur # <<>>
    /\ IF "to_dict" \in cur[1].shadowed
       THEN last' = [NoLast EXCEPT !.op = "roundtrip", !.arg = cur,
                                   !.raised = "TypeError"]
       ELSE IF FromDictError(ToDict(cur[1])) # "none"
       THEN last' = [NoLast EXCEPT !.op = "roundtrip", !.arg = cur,
                                   !.raised = FromDictError(ToDict(cur[1]))]
       ELSE last' = [NoLast EXCEPT !.op = "roundtrip", !.arg = cur,
                                   !.out = <<FromDict(ToDict(cur[1]), now)>>]
    /\ UNCHANGED <<tasks, file, now, pc, cur, faults, saved>>

InitTask ==
    /\ tasks = <<>>
    /\ file = NoFile
    /\ now = 1
    /\ pc = "task"
    /\ cur = <<>>
    /\ last = NoLast
    /\ faults = 0
    /\ saved = "none"

NextTask ==
    \/ TaskConstruct
    \/ TaskMarkAsDone
    \/ TaskMarkAsInProgress
    \/ TaskMarkAsCancelled
    \/ TaskUpdate
    \/ TaskRoundTrip
    \/ Tick

SpecTask == InitTask /\ [][NextTask]_vars

---------------------------------------------------------------------------
(* Claims about the program (SpecShell). *)

IoFailures == {"open_fail", "write_fail"}

\* C1, as stated: once a mutating operation has run (each runs save_tasks)
\* and the program is back at the menu, the file is the serialization of
\* the collection in memory.
C1_FileEqualsMemoryAfterMutation ==
    (pc = "menu" /\ saved # "none") => file = Serialize(tasks)

\* C1, amended: at the menu, when the most recent save_tasks completed
\* without an I/O failure, the file is the serialization of the collection
\* in memory.
C1_FileEqualsMemoryAfterGoodSave ==
    (pc = "menu" /\ saved = "ok") => file = Serialize(tasks)

C1_Witness ==
    /\ pc = "menu"
    /\ saved = "ok"
    /\ last.op = "ui_update"
    /\ Len(tasks) = 2
    /\ \E i \in DOMAIN tasks : tasks[i].title = "b" /\ tasks[i].status = "DONE"

\* The file exists and is not a JSON array of well-formed task records.
Malformed(f) ==
    /\ f.kind # "absent"
    /\ ~(f.kind = "list" /\ FirstError(f.data) = "none")

\* C4: load_tasks on an existing malformed file raises nothing, reports the
\* failure and leaves the collection empty.
C4_LoadOfMalformedFileNeverRaises ==
    (last.op = "load" /\ Malformed(file)) =>
        /\ last.raised = "none"
        /\ last.reported
        /\ tasks = <<>>
        /\ pc = "menu"

\* C5: no menu operation ends the process by an exception: from the menu
\* the program goes nowhere but back to the menu or, by choice 9, out.
C5_MenuOperationNeverCrashes ==
    [][pc = "menu" => /\ pc' # "crashed"
                      /\ (pc' = "exited" => last'.op = "ui_exit")]_vars

\* C7: a save_tasks that hits an I/O failure (a step that uses up one of
\* the environment's failures) raises nothing, reports the
\* failure, and the collection in memory is the one the operation built
\* (the task added is there, the task deleted is gone, the task marked or
\* updated carries the change); later operations that save nothing leave
\* the collection as it is.
C7_FailedSaveKeepsMemory ==
    [][/\ (faults' < faults /\ last'.io \in IoFailures) =>
            /\ last'.raised = "none"
            /\ last'.reported
            /\ pc' = "menu"
            /\ last'.op = "add" => tasks' = Append(tasks, last'.arg[1])
            /\ last'.op = "delete" =>
                 tasks' = RemoveAt(tasks, GetTaskById(tasks, last'.id))
            /\ last'.op = "ui_done" =>
                 LET i == GetTaskById(tasks, last'.id)
                 IN tasks' = [tasks EXCEPT ![i] = MarkAsDone(tasks[i], now)]
            /\ last'.op = "ui_update" =>
                 LET i == GetTaskById(tasks, last'.id)
                 IN /\ Len(tasks') = Len(tasks)
                    /\ tasks'[i].updated_at = now
                    /\ \A j \in DOMAIN tasks : j # i => tasks'[j] = tasks[j]
       /\ (pc = "menu" /\ pc' = "menu" /\ last'.io = "none") => tasks' = tasks]_vars

C7_Witness ==
    /\ pc = "menu"
    /\ last.op = "ui_update"
    /\ last.io \in IoFailures
    /\ saved \in IoFailures
    /\ file # Serialize(tasks)
    /\ \E i \in DOMAIN tasks : tasks[i].title = "b" /\ tasks[i].updated_at = now

\* C8: the file is never left emptied or partly written.
C8_FileNeverPartial == file.kind # "partial"

---------------------------------------------------------------------------
(* Claims about the store (SpecIO, Spec). *)

\* What a fresh TaskManager on the same file would hold.
Reloaded == LoadTasks(file, now)

\* C2, as stated: after add_task(t), a fresh store loading the file holds a
\* task with t's id and t's field values.
C2_AddThenLoadReproduces ==
    last.op = "add" =>
        /\ Reloaded.raised = "none"
        /\ \E i \in DOMAIN Reloaded.tasks : Reloaded.tasks[i] = last.arg[1]

\* C2, amended: the same when the save add_task ran wrote the file in full.
C2_AddThenLoadReproducesAfterGoodSave ==
    (last.op = "add" /\ last.io = "ok" /\ last.raised = "none") =>
        /\ Reloaded.raised = "none"
        /\ \E i \in DOMAIN Reloaded.tasks : Reloaded.tasks[i] = last.arg[1]

C2_Witness ==
    /\ last.op = "add"
    /\ last.io = "ok"
    /\ Len(tasks) = 2
    /\ last.arg[1].task_id = 7
    /\ last.arg[1].category = ""
    /\ last.arg[1].due_date = 1
    /\ Reloaded.tasks = tasks

\* C3: delete_task with an id no task has returns False, changes neither
\* the collection nor the file, and runs no save.
C3_DeleteOfMissingIdChangesNothing ==
    [][(/\ last' # last
        /\ last'.op = "delete"
        /\ \A i \in DOMAIN tasks : tasks[i].task_id # last'.id) =>
            /\ last'.ret = FALSE
            /\ last'.io = "none"
            /\ tasks' = tasks
            /\ file' = file
            /\ saved' = saved]_vars

C3_Witness ==
    /\ last.op = "delete"
    /\ last.ret = FALSE
    /\ Len(tasks) = 2
    /\ \A i \in DOMAIN tasks : tasks[i].task_id # last.id
    /\ file # Serialize(tasks)

\* C6: no task of the collection has an empty title.
C6_NoTaskWithEmptyTitle == \A i \in DOMAIN tasks : tasks[i].title # ""

\* What C9 asks of a task to be listed.
Matches(t, filter_status, filter_category) ==
    /\ filter_status # NoStatus => t.status = filter_status
    /\ filter_category # NoCategory => t.category = filter_category

Count(seq, v) == Cardinality({i \in DOMAIN seq : seq[i] = v})

\* C9: list_tasks returns exactly the tasks that match every filter given
\* (the empty category string too), by created_at descending.
C9_ListReturnsExactlyTheMatches ==
    last.op = "list" =>
        /\ \A i \in 1..(Len(last.out) - 1) :
             last.out[i].created_at >= last.out[i + 1].created_at
        /\ \A v \in Range(tasks) \cup Range(last.out) :
             Count(last.out, v) =
               IF Matches(v, last.fs, last.fc) THEN Count(tasks, v) ELSE 0

---------------------------------------------------------------------------
(* Claims about one task (SpecTask). *)

\* C10: from_dict(to_dict(t)) raises nothing and has t's title, description,
\* category, priority, status, due_date, completed_at, created_at and
\* updated_at.
C10_RoundTripKeepsFields ==
    last.op = "roundtrip" =>
        /\ last.raised = "none"
        /\ \A f \in {"title", "description", "category", "priority", "status",
                     "due_date", "completed_at", "created_at", "updated_at"} :
             last.out[1][f] = last.arg[1][f]

---------------------------------------------------------------------------
(* Claims about the store and the tasks it hands out (SpecStore). *)

\* C11: get_statistics() returns total = the number of tasks and
\* completion_rate = 0 when there is no task, 100 * done / total otherwise,
\* done the number of tasks whose status is DONE; a store holding the one
\* task just constructed reports total 1, todo 1 and rate 0.
C11_StatisticsTotalAndRate ==
    last.op = "statistics" =>
        LET stats == last.out[1]
            done == Cardinality({i \in DOMAIN tasks : tasks[i].status = "DONE"})
            rate == stats.completion_rate
        IN /\ stats.total = Len(tasks)
           /\ rate.den > 0
           /\ Len(tasks) = 0 => rate.num = 0
           /\ Len(tasks) > 0 => rate.num * Len(tasks) = 100 * done * rate.den
           /\ (Len(tasks) = 1 /\ tasks[1].status = "TODO") =>
                  stats.total = 1 /\ stats.todo = 1 /\ rate.num = 0

C11_Witness ==
    /\ last.op = "statistics"
    /\ Len(tasks) = 2
    /\ last.out[1].done = 1
    /\ last.out[1].cancelled = 1
    /\ last.out[1].completion_rate = [num |-> 100, den |-> 2]

\* C12: is_overdue() returns true exactly when due_date is set, the status
\* is not DONE and due_date is before the clock reading of the call, and
\* false otherwise: so for a TODO task with a past due_date it is true, and
\* for a task marked done it is false.
C12_OverdueIffDuePastAndNotDone ==
    [][(last'.op = "is_overdue" /\ last' # last) =>
          LET t == last'.arg[1]
          IN /\ last'.raised = "none"
             /\ last'.ret = (/\ t.due_date # None
                             /\ t.status # "DONE"
                             /\ t.due_date < now)
             /\ (t.status = "TODO" /\ t.due_date # None /\ t.due_date < now) =>
                    last'.ret = TRUE
             /\ t.status = "DONE" => last'.ret = FALSE]_vars

C12_Witness ==
    /\ last.op = "is_overdue"
    /\ last.ret = FALSE
    /\ last.arg[1].status = "DONE"
    /\ last.arg[1].completed_at = now
    /\ last.arg[1].due_date # None
    /\ last.arg[1].due_date < now

\* C19: the four per-status counts of get_statistics() add up to total, and
\* overdue is at most the number of tasks that are not done.
C19_CountsAddUp ==
    last.op = "statistics" =>
        LET stats == last.out[1]
        IN /\ stats.todo + stats.in_progress + stats.done + stats.cancelled
                = stats.total
           /\ stats.overdue <= stats.total - stats.done

C19_Witness ==
    /\ last.op = "statistics"
    /\ last.out[1].total = 2
    /\ last.out[1].done = 1
    /\ last.out[1].overdue = 1
    /\ \E i \in DOMAIN tasks :
          /\ tasks[i].status = "DONE"
          /\ tasks[i].completed_at = None
          /\ tasks[i].due_date # None
          /\ tasks[i].due_date < now

---------------------------------------------------------------------------
(* Claims about one task (SpecTask), continued. *)

TransitionNames == {"mark_as_done", "mark_as_in_progress", "mark_as_cancelled"}

\* The edges of the status graph C13 allows the transition operations.
AllowedTransitions ==
    { <<"TODO", "IN_PROGRESS">>, <<"TODO", "DONE">>, <<"TODO", "CANCELLED">>,
      <<"IN_PROGRESS", "DONE">>, <<"IN_PROGRESS", "CANCELLED">> }

\* C13: a task is constructed with status TODO; a transition operation
\* that changes the status changes it along an allowed edge; any other
\* change of a task's status is made by update.
C13_TransitionsFollowTheGraph ==
    [][/\ (last'.op = "construct" /\ cur' # cur) => cur'[1].status = "TODO"
       /\ (cur # <<>> /\ cur' # <<>> /\ last'.op # "construct"
             /\ cur'[1].status # cur[1].status) =>
            /\ last'.op \in TransitionNames \cup {"update"}
            /\ last'.op \in TransitionNames =>
                 <<cur[1].status, cur'[1].status>> \in AllowedTransitions]_vars

\* C14: completed_at is None at construction, mark_as_done sets it to the
\* clock reading, and mark_as_in_progress, mark_as_cancelled and update
\* (whatever its keyword arguments) leave it as it was.
C14_CompletedAtSetOnlyByDone ==
    [][/\ (last'.op = "construct" /\ cur' # cur) => cur'[1].completed_at = None
       /\ (cur # <<>> /\ last' # last /\ last'.raised = "none") =>
            /\ last'.op = "mark_as_done" => cur'[1].completed_at = now
            /\ last'.op \in {"mark_as_in_progress", "mark_as_cancelled", "update"} =>
                 cur'[1].completed_at = cur[1].completed_at]_vars

\* What C15 says update(**kwargs) makes of task t at clock reading clk: the
\* fields named are set, updated_at is the clock reading, all else is kept.
UpdatedAsClaimed(t, kwargs, clk) ==
    [f \in DOMAIN t |->
       IF f = "updated_at" THEN clk
       ELSE IF f \in FieldNames \cap DOMAIN kwargs THEN kwargs[f]
       ELSE t[f]]

\* C15: update changes only the fields named in its keyword arguments and
\* refreshes updated_at; a key that is no field (a method's name too) is
\* ignored: no error, then or later, and no method of the task is replaced.
C15_UpdateAppliesOnlyFields ==
    [][(cur # <<>> /\ last' # last) =>
          /\ last'.raised = "none"
          /\ last'.op = "update" =>
               /\ \E kwargs \in UpdateKwargs :
                    cur'[1] = UpdatedAsClaimed(cur[1], kwargs, now)
               /\ cur'[1].shadowed = {}]_vars

\* C16: created_at is the clock reading of the construction and no later
\* operation on the task changes it; every operation that mutates the task
\* sets updated_at to the clock reading, so updated_at >= created_at.
C16_CreatedAtSetOnce ==
    [][/\ (last'.op = "construct" /\ cur' # cur) =>
            cur'[1].created_at = now /\ cur'[1].updated_at = now
       /\ (cur # <<>> /\ last'.op # "construct") =>
            cur'[1].created_at = cur[1].created_at
       /\ (cur # <<>> /\ last' # last /\ last'.raised = "none"
             /\ last'.op \in TransitionNames \cup {"update"}) =>
            cur'[1].updated_at = now
       /\ cur' # <<>> => cur'[1].updated_at >= cur'[1].created_at]_vars

---------------------------------------------------------------------------
(* Claims about the store (SpecIO), continued. *)

\* A step that is delete_task(last'.id) on a collection holding that id.
DeleteOfPresentId ==
    /\ last'.op = "delete"
    /\ now' = now
    /\ \E i \in DOMAIN tasks : tasks[i].task_id = last'.id

\* The step removed the first task with the id and nothing else, the rest
\* in its order.
RemovedFirstWithId ==
    \E k \in DOMAIN tasks :
       /\ tasks[k].task_id = last'.id
       /\ \A j \in 1..(k - 1) : tasks[j].task_id # last'.id
       /\ Len(tasks') = Len(tasks) - 1
       /\ \A j \in 1..(k - 1) : tasks'[j] = tasks[j]
       /\ \A j \in k..(Len(tasks) - 1) : tasks'[j] = tasks[j + 1]

---------------------------------------------------------------------------
(* Claims about the program started on no backing file (SpecFirstRun). *)

\* C18: every task whose status is DONE has a completed_at, and choice 6
\* with the id of a task already DONE changes neither the collection nor
\* the file.
C18_DoneHasCompletedAt ==
    [][/\ \A i \in DOMAIN tasks' :
            tasks'[i].status = "DONE" => tasks'[i].completed_at # None
       /\ (/\ pc = "menu"
           /\ now' = now
           /\ last'.op = "ui_done"
           /\ GetTaskById(tasks, last'.id) # 0
           /\ tasks[GetTaskById(tasks, last'.id)].status = "DONE") =>
              /\ tasks' = tasks
              /\ file' = file
              /\ pc' = "menu"]_vars

C18_Witness ==
    /\ pc = "menu"
    /\ last.op = "ui_done"
    /\ last.io = "none"
    /\ GetTaskById(tasks, last.id) # 0
    /\ tasks[GetTaskById(tasks, last.id)].status = "DONE"
    /\ tasks[GetTaskById(tasks, last.id)].completed_at < now
    /\ tasks[GetTaskById(tasks, last.id)].updated_at < now

====
